---- MODULE Spec2Model ----
(***************************************************************************)
(* Model of the query layer of sejmofil_mcp: the Cypher queries of         *)
(* QueryService (queries.py) over a small graph store, the embeddings      *)
(* service (embeddings.py) that decides between vector and fulltext        *)
(* search, and the results each operation returns.                         *)
(*                                                                         *)
(* The store holds Print nodes, Process nodes, Stage nodes and the         *)
(* answers of the two indexes ("print_content" fulltext index and          *)
(* "printEmbeddingIndex" vector index) to the query text of the request.   *)
(* A null property is modelled by 0 (dates, stage of an OPTIONAL MATCH     *)
(* that matched nothing) or by the string "NULL" (types, process links).   *)
(***************************************************************************)
EXTENDS Integers, Sequences, FiniteSets, TLC

\* ---------------------------------------------------------------- bounds
MaxStages == 2      \* stage ordinals of a process are drawn from 1..MaxStages
MaxDate   == 2      \* dates are 1..MaxDate
MaxScore  == 2      \* index scores are 1..MaxScore (0: not in the index answer)
MaxLimit  == 3      \* the limit argument is drawn from 1..MaxLimit
MaxTerms  == 2      \* a query text has up to MaxTerms words
MaxNeighbors == 2   \* a Person has up to MaxNeighbors neighbours of a relationship type
MaxDrivers == 3     \* connect() creates up to MaxDrivers drivers in a run

\* settings.MAX_LIMIT
MAX_LIMIT == 50

\* ------------------------------------------------------------ the store
NoDate    == 0
NoType    == "NULL"
NoProcess == "NULL"

Prints == {"p1", "p2"}
Procs  == {"A", "B"}
PrintKeys == Prints \cup {"p9"}      \* "p9": a number no Print node has
ProcKeys  == Procs \cup {"Z"}        \* "Z": a number no Process node has

\* "REJECTION" stands for the type of a stage 'Odrzucenie projektu ustawy',
\* "OTHER" for the type of any other stage that does not conclude the process
StageTypes    == {"PUBLICATION", "WITHDRAWAL", "REJECTION", "OTHER", NoType}
TerminalTypes == {"PUBLICATION", "WITHDRAWAL"}

Stage     == [number : 1..MaxStages, date : 0..MaxDate, type : StageTypes]
NullStage == [number |-> 0, date |-> NoDate, type |-> NoType]

PrintNode == [summary : BOOLEAN, inProcessPrint : BOOLEAN,
              documentDate : 0..MaxDate, process : Procs \cup {NoProcess}]

StatusFilters == {"all", "active", "finished"}

\* the words of queries and documents, and the operators of the index's
\* query syntax
Terms     == {"a", "b"}
Operators == {"AND", "OR"}

\* Person nodes: the id property is an integer or a string of the same digits;
\* a parameter matches it when it is of the same type and the same value
PersonNumbers == {"400"}
PersonKeys    == PersonNumbers \cup {"999"}    \* "999": an id no Person node has
IdKinds       == {"int", "str"}
RelTypes      == {"AUTHORED", "SAID"}
PersonNode    == [id : [kind : IdKinds, val : PersonNumbers],
                  rels : [RelTypes -> 0..MaxNeighbors]]

NoDriver == 0
Callers  == {"c1", "c2"}
Sessions == {"s1", "s2"}
NoSession == "NULL"
Phases   == {"init", "loaded", "running", "stopped", "aborted"}

\* the labels of the nodes a print REFERS_TO
ReferredLabels == {"Topic", "Organization"}

ClubNames == {"KO"}
ClubKeys  == ClubNames \cup {"ZZ"}             \* "ZZ": a name no Club node has

VARIABLES
    prints,         \* Print nodes: [Prints -> PrintNode]
    stages,         \* (process)-[:HAS]->(stage): [Procs -> SUBSET Stage]
    fulltextScore,  \* answer of db.index.fulltext.queryNodes to the query text
    vectorScore,    \* answer of db.index.vector.queryNodes to its embedding
    client,         \* embeddings_service.client is not None
    queryText,      \* the query_text of the searches: its whitespace-separated words
    indexed,        \* the words the fulltext index holds of each print
    persons,        \* Person nodes and the number of their relationships
    clubs,          \* the names of the Club nodes
    authored,       \* (:Person {club})-[:AUTHORED]->(print): the prints of each club's author
    refersTo,       \* (print)-[:REFERS_TO]->(): the topics and the organizations of each print
    driver,         \* neo4j_client.driver: NoDriver (None) or the driver it refers to
    drivers,        \* every driver GraphDatabase.driver can hand out: unopened, open or closed
    reachable,      \* the store answers
    phase,          \* the server process: init, loaded, running, stopped or aborted
    failedSinceConnect,  \* a request has failed on an open driver since self.driver was set
    requests,       \* the query operations under way, one per caller, and their locals
    sessions,       \* the sessions of the driver: free, or open with the records read
    last            \* the last operation and what it returned

vars == <<prints, stages, fulltextScore, vectorScore, client, queryText, indexed,
          persons, clubs, authored, refersTo, driver, drivers, reachable, phase,
          failedSinceConnect, requests, sessions, last>>

\* the contents of the store and of the two services
graph == <<prints, stages, fulltextScore, vectorScore, client, queryText, indexed,
           persons, clubs, authored, refersTo>>

store == <<graph, driver, drivers, reachable, phase, failedSinceConnect,
           requests, sessions>>

\* --------------------------------------------------------------- helpers
Min(a, b) == IF a <= b THEN a ELSE b

\* the sequences that list every element of S exactly once
SeqsOf(S) ==
    {f \in [1..Cardinality(S) -> S] : \A i, j \in 1..Cardinality(S) : f[i] = f[j] => i = j}

\* a variant that cuts nothing
TakeAll(s, n) == s

Take(s, n) == SubSeq(s, 1, Min(n, Len(s)))

Range(s) == {s[i] : i \in 1..Len(s)}

\* Cypher ORDER BY ... DESC puts null first: null is the greatest value
DescKey(d) == IF d = NoDate THEN MaxDate + 1 ELSE d

\* ORDER BY stage.date DESC, stage.number DESC: s sorts strictly before t
StagePrecedes(s, t) ==
    \/ DescKey(s.date) > DescKey(t.date)
    \/ DescKey(s.date) = DescKey(t.date) /\ s.number > t.number

RECURSIVE InsertStage(_, _)
InsertStage(x, sorted) ==
    IF sorted = <<>> THEN <<x>>
    ELSE IF StagePrecedes(x, Head(sorted)) THEN <<x>> \o sorted
    ELSE <<Head(sorted)>> \o InsertStage(x, Tail(sorted))

\* the rows of a WITH ... ORDER BY stage.date DESC, stage.number DESC, rows
\* with equal keys staying in the order they arrived in
RECURSIVE OrderByStage(_)
OrderByStage(rows) ==
    IF rows = <<>> THEN <<>>
    ELSE InsertStage(rows[Len(rows)], OrderByStage(SubSeq(rows, 1, Len(rows) - 1)))

\* COLLECT(stage): the non-null stages of the rows, in row order
RECURSIVE Collect(_)
Collect(rows) ==
    IF rows = <<>> THEN <<>>
    ELSE IF Head(rows).number = 0 THEN Collect(Tail(rows))
    ELSE <<Head(rows)>> \o Collect(Tail(rows))

\* COLLECT(stage)[0]: null when the list is empty
CollectHead(rows) ==
    IF Collect(rows) = <<>> THEN NullStage ELSE Collect(rows)[1]

\* OPTIONAL MATCH (process)-[:HAS]->(stage:Stage): the stages in the order the
\* store hands them out, or one row with a null stage
StageRows(arrival) == IF arrival = <<>> THEN <<NullStage>> ELSE arrival

\* Cypher's three-valued  x IN ['PUBLICATION', 'WITHDRAWAL']: null for a null x
InTerminalTypes(type) ==
    IF type = NoType THEN "null" ELSE IF type \in TerminalTypes THEN "true" ELSE "false"

\* Cypher's three-valued NOT
Not3(v) == IF v = "true" THEN "false" ELSE IF v = "false" THEN "true" ELSE "null"

\* ------------------------------------------------------------- results
\* what an operation leaves behind: its arguments, whether it returned a value
\* ("ok"), returned None ("none") or raised ("error"), and the value's fields
NoResult ==
    [op |-> "init", arg |-> "", limit |-> 0, filter |-> "", outcome |-> "",
     rows |-> <<>>, status |-> "", currentStage |-> 0, stageDate |-> NoDate,
     processNumber |-> NoProcess, allStages |-> <<>>, processPrints |-> <<>>,
     submitted |-> <<>>, storeLimit |-> 0, calls |-> {},
     argKind |-> "", nodeType |-> "", neighbors |-> {},
     tool |-> "", caught |-> FALSE, text |-> "",
     authoredPrints |-> 0, activePrints |-> 0, finishedPrints |-> 0]

Call(op, arg) == [NoResult EXCEPT !.op = op, !.arg = arg]

\* an exception raised below a QueryService method reaches its caller: no
\* method of QueryService but get_node_neighbors has a handler
Raised(r) == [r EXCEPT !.outcome = "error"]

ReturnedNone(r) == [r EXCEPT !.outcome = "none"]

\* the locals of a caller that has no operation under way, and a free session
NoRequest   == [pc |-> "idle", op |-> "", arg |-> "", session |-> NoSession,
                result |-> NoResult]
FreeSession == [open |-> FALSE, records |-> NoResult]

NoRequests ==
    /\ requests = [c \in Callers |-> NoRequest]
    /\ sessions = [x \in Sessions |-> FreeSession]

\* the methods are synchronous: a call is made when no other is under way
Idle == last = NoResult

\* the caller takes what the method returned (or raised); nothing of the call
\* is kept
ReturnToCaller ==
    /\ ~Idle
    /\ last' = NoResult
    /\ UNCHANGED store

\* ------------------------------------------------- get_process_status
\* CASE WHEN latestStage IS NULL ... of get_process_status
ProcessStatusCase(latestStage) ==
    IF latestStage.number = 0 THEN "unknown"
    ELSE IF InTerminalTypes(latestStage.type) = "true" THEN "finished"
    ELSE "active"

\* the record get_process_status returns for an existing process whose stages
\* the store hands out in the order `arrival`
ProcessStatusRecord(processNumber, arrival) ==
    LET sorted      == OrderByStage(StageRows(arrival))
        allStages   == Collect(sorted)
        latestStage == CollectHead(sorted)
    IN  [Call("get_process_status", processNumber) EXCEPT
            !.outcome = "ok",
            !.processNumber = processNumber,
            !.status = ProcessStatusCase(latestStage),
            !.currentStage = latestStage.number,
            !.stageDate = latestStage.date,
            !.allStages = [i \in 1..Len(allStages) |-> allStages[i].number],
            !.calls = {"execute_read_query"}]

\* what get_process_status can return for a process number
ProcessStatusOutcomes(processNumber) ==
    IF processNumber \notin Procs
    THEN {ReturnedNone([Call("get_process_status", processNumber)
                     EXCEPT !.calls = {"execute_read_query"}])}
    ELSE {ProcessStatusRecord(processNumber, arrival) :
             arrival \in SeqsOf(stages[processNumber])}

get_process_status(processNumber) ==
    /\ Idle
    /\ last' \in ProcessStatusOutcomes(processNumber)
    /\ UNCHANGED store

\* ------------------------------------------------ get_process_details
\* (processPrint:Print)-[:IS_SOURCE_OF]->(process)
\* a variant that knows the initiating prints only
ProcessPrintsInitiatingOnly(process) ==
    {pp \in Prints : prints[pp].process = process /\ prints[pp].inProcessPrint}

ProcessPrints(process) == {pp \in Prints : prints[pp].process = process}

\* the rows of the two OPTIONAL MATCHes before the ORDER BY: one row for every
\* pair of a print of the process and a stage of the process
RECURSIVE ProcessPrintStageRows(_, _)
ProcessPrintStageRows(printArrival, arrival) ==
    IF printArrival = <<>> THEN <<>>
    ELSE StageRows(arrival) \o ProcessPrintStageRows(Tail(printArrival), arrival)

\* a variant of the CASE that knows 'PUBLICATION' as the only terminal type
ProcessDetailsCasePublicationOnly(latestStage) ==
    IF latestStage.number = 0 THEN "unknown"
    ELSE IF latestStage.type = "PUBLICATION" THEN "finished"
    ELSE "active"

\* CASE WHEN latestStage IS NULL ... of get_process_details
ProcessDetailsCase(latestStage) ==
    IF latestStage.number = 0 THEN "unknown"
    ELSE IF InTerminalTypes(latestStage.type) = "true" THEN "finished"
    ELSE "active"

ProcessDetailRecord(printNumber, printArrival, arrival) ==
    LET process     == prints[printNumber].process
        sorted      == OrderByStage(ProcessPrintStageRows(printArrival, arrival))
        allStages   == Collect(sorted)
        latestStage == CollectHead(sorted)
    IN  [Call("get_process_details", printNumber) EXCEPT
            !.outcome = "ok",
            !.processNumber = process,
            !.status = ProcessDetailsCase(latestStage),
            !.currentStage = latestStage.number,
            !.stageDate = latestStage.date,
            !.allStages = [i \in 1..Len(allStages) |-> allStages[i].number],
            !.processPrints = printArrival,
            !.calls = {"execute_read_query"}]

get_process_details(printNumber) ==
    /\ Idle
    /\ last' \in
         IF printNumber \notin Prints \/ prints[printNumber].process = NoProcess
         THEN {ReturnedNone([Call("get_process_details", printNumber)
                          EXCEPT !.calls = {"execute_read_query"}])}
         ELSE {ProcessDetailRecord(printNumber, printArrival, arrival) :
                  printArrival \in SeqsOf(ProcessPrints(prints[printNumber].process)),
                  arrival \in SeqsOf(stages[prints[printNumber].process])}
    /\ UNCHANGED store

\* -------------------------------------------------- get_print_details
\* OPTIONAL MATCH (print)-[:IS_SOURCE_OF]->(process), OPTIONAL MATCH its stages
PrintStageRows(printNumber, arrival) ==
    IF prints[printNumber].process = NoProcess THEN <<NullStage>> ELSE StageRows(arrival)

StagesOfPrint(printNumber) ==
    IF prints[printNumber].process = NoProcess THEN {}
    ELSE stages[prints[printNumber].process]

\* the order in which the store hands out the stages of every print's process
Arrivals ==
    {f \in [Prints -> UNION {SeqsOf(StagesOfPrint(p)) : p \in Prints}] :
        \A p \in Prints : f[p] \in SeqsOf(StagesOfPrint(p))}

PrintDetailRecord(printNumber, arrival) ==
    LET latestStage == CollectHead(OrderByStage(PrintStageRows(printNumber, arrival)))
    IN  [Call("get_print_details", printNumber) EXCEPT
            !.outcome = "ok",
            !.processNumber = prints[printNumber].process,
            !.currentStage = latestStage.number,
            !.stageDate = latestStage.date,
            !.calls = {"execute_read_query"}]

\* what get_print_details can return for a print number
PrintDetailOutcomes(printNumber) ==
    IF printNumber \notin Prints
    THEN {ReturnedNone([Call("get_print_details", printNumber)
                     EXCEPT !.calls = {"execute_read_query"}])}
    ELSE {PrintDetailRecord(printNumber, arrival) :
             arrival \in SeqsOf(StagesOfPrint(printNumber))}

get_print_details(printNumber) ==
    /\ Idle
    /\ last' \in PrintDetailOutcomes(printNumber)
    /\ UNCHANGED store

\* ------------------------------------------------- people and clubs
\* a variant that compares the digits only
PersonsWithIdAnyKind(kind, val) == {n \in persons : n.id.val = val}

\* MATCH (p:Person {id: $param}): the nodes whose id equals the parameter, in
\* type and in value
PersonsWithId(kind, val) == {n \in persons : n.id = [kind |-> kind, val |-> val]}

\* get_person_activity(person_id: int): None when the first query has no row
PersonActivityOutcome(person_id) ==
    LET call == [Call("get_person_activity", person_id) EXCEPT
                    !.argKind = "int", !.calls = {"execute_read_query"}]
    IN  IF PersonsWithId("int", person_id) = {} THEN ReturnedNone(call)
        ELSE [call EXCEPT !.outcome = "ok"]

get_person_activity(person_id) ==
    /\ Idle
    /\ last' = PersonActivityOutcome(person_id)
    /\ UNCHANGED store

\* the two CASE expressions get_club_statistics sums over its rows
ClubActiveCase(process, latestStage) ==
    \/ process = NoProcess
    \/ latestStage.number = 0
    \/ latestStage.type = NoType
    \/ Not3(InTerminalTypes(latestStage.type)) = "true"

ClubFinishedCase(latestStage) == InTerminalTypes(latestStage.type) = "true"

\* the statistics of an existing club. The rows summed are the groups
\* (print2, process) of the OPTIONAL MATCHes: one per authored print, and one
\* row of nulls when the club's members authored no print
ClubStatisticsRecord(call, club_name, arrival) ==
    LET authoredPrints == authored[club_name]
        latestStage(p) == CollectHead(OrderByStage(PrintStageRows(p, arrival[p])))
        nullRows       == IF authoredPrints = {} THEN {"null"} ELSE {}
    IN  [call EXCEPT
            !.outcome = "ok",
            !.authoredPrints = Cardinality(authoredPrints),
            !.activePrints =
                Cardinality({p \in authoredPrints :
                                ClubActiveCase(prints[p].process, latestStage(p))})
                + Cardinality({r \in nullRows : ClubActiveCase(NoProcess, NullStage)}),
            !.finishedPrints =
                Cardinality({p \in authoredPrints : ClubFinishedCase(latestStage(p))})
                + Cardinality({r \in nullRows : ClubFinishedCase(NullStage)})]

\* a variant that runs its query with execute_query, outside a read transaction
ClubStatisticsOutcomeAutoCommit(club_name, arrival) ==
    LET call == [Call("get_club_statistics", club_name) EXCEPT
                    !.calls = {"execute_query"}]
    IN  IF club_name \notin clubs THEN ReturnedNone(call)
        ELSE ClubStatisticsRecord(call, club_name, arrival)

\* get_club_statistics: MATCH (club:Club {name: $clubName}) first, so a name
\* of no club yields no row
ClubStatisticsOutcome(club_name, arrival) ==
    LET call == [Call("get_club_statistics", club_name) EXCEPT
                    !.calls = {"execute_read_query"}]
    IN  IF club_name \notin clubs THEN ReturnedNone(call)
        ELSE ClubStatisticsRecord(call, club_name, arrival)

get_club_statistics(club_name) ==
    /\ Idle
    /\ last' \in {ClubStatisticsOutcome(club_name, arrival) : arrival \in Arrivals}
    /\ UNCHANGED store

\* ------------------------------------------------ get_node_neighbors
NodeTypes == {"Person", "Print", "Process", "Bogus"}   \* "Bogus": no such label

\* WHERE relType IS NOT NULL: a row for a relationship type and a neighbour
\* label the node has neighbours of
RelRow(relType, neighborType, totalCount) ==
    IF totalCount > 0
    THEN {[relType |-> relType, neighborType |-> neighborType, totalCount |-> totalCount]}
    ELSE {}

\* labels(neighbor)[0] of the neighbours of a Person
PersonNeighborType(relType) == IF relType = "AUTHORED" THEN "Print" ELSE "Statement"

\* the clubs whose author authored the print
AuthorsOf(p) == {c \in ClubNames : p \in authored[c]}

\* the rows of the neighbours query, grouped by n, type(r) and
\* labels(neighbor)[0], with the number of distinct neighbours of each group
\*   Person  {id: $nodeId}      the parameter is the node_id string
\*   Print   {number: $nodeId}  IS_SOURCE_OF its process, REFERS_TO topics and
\*                              organizations, AUTHORED by persons
\*   Process {number: $nodeId}  HAS stages, prints IS_SOURCE_OF it
\*   any other label            MATCH (n:<label>) WHERE id(n) = toInteger($nodeId)
NeighborRows(node_type, node_id) ==
    IF node_type = "Person"
    THEN UNION {UNION {RelRow(t, PersonNeighborType(t), n.rels[t]) : t \in RelTypes} :
                   n \in PersonsWithId("str", node_id)}
    ELSE IF node_type = "Print"
    THEN IF node_id \notin Prints THEN {}
         ELSE RelRow("IS_SOURCE_OF", "Process",
                     IF prints[node_id].process # NoProcess THEN 1 ELSE 0)
              \cup UNION {RelRow("REFERS_TO", l, refersTo[node_id][l]) :
                             l \in ReferredLabels}
              \cup RelRow("AUTHORED", "Person", Cardinality(AuthorsOf(node_id)))
    ELSE IF node_type = "Process"
    THEN IF node_id \notin Procs THEN {}
         ELSE RelRow("HAS", "Stage", Cardinality(stages[node_id]))
              \cup RelRow("IS_SOURCE_OF", "Print", Cardinality(ProcessPrints(node_id)))
    ELSE {}

\* ORDER BY totalCount DESC, then "if rel_type not in grouped": of the rows of
\* one relationship type a row of the greatest totalCount comes first and is
\* the one kept
FirstOfType(rows) ==
    {r \in rows : \A q \in rows : q.relType = r.relType => q.totalCount <= r.totalCount}

\* the dictionaries that can be returned: per relationship type the
\* neighborType and totalCount of the row kept and the neighbours shown,
\* neighbors[0..$limit]
Grouped(rows, limit) ==
    {{[relType |-> r.relType, neighborType |-> r.neighborType,
       totalCount |-> r.totalCount, shown |-> Min(r.totalCount, limit)] : r \in kept} :
        kept \in {K \in SUBSET FirstOfType(rows) :
                     \A r \in rows :
                        Cardinality({k \in K : k.relType = r.relType}) = 1}}

\* a failure of the store is caught and an empty dictionary is returned
get_node_neighbors(node_type, node_id, limit, storeOk) ==
    /\ Idle
    /\ last' \in
         {[Call("get_node_neighbors", node_id) EXCEPT
              !.argKind = "str",
              !.nodeType = node_type,
              !.limit = limit,
              !.storeLimit = limit,
              !.outcome = "ok",
              !.caught = ~storeOk,
              !.neighbors = grouped,
              !.calls = {"execute_read_query"}] :
            grouped \in IF storeOk THEN Grouped(NeighborRows(node_type, node_id), limit)
                        ELSE {{}}}
    /\ UNCHANGED store

\* ------------------------------------------------- server.py: tools
\* neo4j_client.execute_read_query logs a failure of the store and re-raises
StoreFailure(r) == Raised([r EXCEPT !.calls = {"execute_read_query"}])

\* query_service has no method of that name: AttributeError, before any query
MissingMethod(op, arg) == Raised(Call(op, arg))

\* a variant of the tools' handler that lets the exception through
ToolReturnReraises(tool, r) ==
    [r EXCEPT !.tool = tool,
              !.outcome = IF r.outcome = "error" THEN "error" ELSE "string",
              !.text = IF r.outcome = "error" THEN ""
                       ELSE IF r.outcome = "none" THEN "not found" ELSE "output"]

\* every tool has the shape
\*     try: r = query_service.<op>(...); if not r: return "... not found"; return output
\*     except Exception as e: return f"Error ...: {str(e)}"
ToolReturn(tool, r) ==
    [r EXCEPT !.tool = tool,
              !.outcome = "string",
              !.caught = (r.outcome = "error"),
              !.text = IF r.outcome = "error" THEN "Error"
                       ELSE IF r.outcome = "none" THEN "not found" ELSE "output"]

\* a list the query returns: the rows are the store's answer; an empty list
\* is rendered like None
ListOutcome(op, arg, found) ==
    [Call(op, arg) EXCEPT !.outcome = IF found THEN "ok" ELSE "none",
                          !.calls = {"execute_read_query"}]

tool_search_active_prints_by_topic(topic, limit) ==
    /\ Idle
    /\ last' = ToolReturn("search_active_prints_by_topic",
                  [MissingMethod("search_active_prints_by_topic", topic)
                      EXCEPT !.limit = Min(limit, MAX_LIMIT)])
    /\ UNCHANGED store

\* get_print_details, then get_print_comments when the print was found
tool_get_print_details(print_number, storeOk, commentsOk) ==
    /\ Idle
    /\ last' \in
         {ToolReturn("get_print_details", r) :
            r \in IF ~storeOk
                  THEN {StoreFailure(Call("get_print_details", print_number))}
                  ELSE {IF d.outcome = "ok" /\ ~commentsOk THEN StoreFailure(d) ELSE d :
                           d \in PrintDetailOutcomes(print_number)}}
    /\ UNCHANGED store

\* what the tool get_process_status can return
ProcessStatusToolOutcomes(process_number, storeOk) ==
    {ToolReturn("get_process_status", r) :
        r \in IF storeOk THEN ProcessStatusOutcomes(process_number)
              ELSE {StoreFailure(Call("get_process_status", process_number))}}

tool_get_process_status(process_number, storeOk) ==
    /\ Idle
    /\ last' \in ProcessStatusToolOutcomes(process_number, storeOk)
    /\ UNCHANGED store

tool_find_mp_by_name(name, storeOk, found) ==
    /\ Idle
    /\ last' = ToolReturn("find_mp_by_name",
                  IF storeOk THEN ListOutcome("find_person_by_name", name, found)
                  ELSE StoreFailure(Call("find_person_by_name", name)))
    /\ UNCHANGED store

tool_get_mp_activity(person_id, storeOk) ==
    /\ Idle
    /\ last' = ToolReturn("get_mp_activity",
                  IF storeOk THEN PersonActivityOutcome(person_id)
                  ELSE StoreFailure([Call("get_person_activity", person_id)
                                       EXCEPT !.argKind = "int"]))
    /\ UNCHANGED store

tool_get_similar_topics(topic_name, limit) ==
    /\ Idle
    /\ last' = ToolReturn("get_similar_topics",
                  [MissingMethod("get_similar_topics", topic_name)
                      EXCEPT !.limit = limit])
    /\ UNCHANGED store

tool_get_topic_statistics(topic_name) ==
    /\ Idle
    /\ last' = ToolReturn("get_topic_statistics",
                          MissingMethod("get_topic_statistics", topic_name))
    /\ UNCHANGED store

tool_get_club_statistics(club_name, storeOk) ==
    /\ Idle
    /\ last' \in
         {ToolReturn("get_club_statistics", r) :
            r \in IF storeOk
                  THEN {ClubStatisticsOutcome(club_name, arrival) : arrival \in Arrivals}
                  ELSE {StoreFailure(Call("get_club_statistics", club_name))}}
    /\ UNCHANGED store

tool_list_clubs(storeOk, found) ==
    /\ Idle
    /\ last' = ToolReturn("list_clubs",
                  IF storeOk THEN ListOutcome("list_clubs", "", found)
                  ELSE StoreFailure(Call("list_clubs", "")))
    /\ UNCHANGED store

tool_search_all(query, limit) ==
    /\ Idle
    /\ last' = ToolReturn("search_all",
                  [MissingMethod("search_all", query) EXCEPT !.limit = limit])
    /\ UNCHANGED store

\* ------------------------------------------ neo4j_client.py: the client
\* the driver GraphDatabase.driver hands out next
Fresh == CHOOSE d \in 1..MaxDrivers :
            drivers[d] = "unopened" /\ \A e \in 1..(d - 1) : drivers[e] # "unopened"

DriverOpen == driver # NoDriver /\ drivers[driver] = "open"

\* a variant in which a failed request leaves the driver unusable
ReadQueryOkUntilFailure == DriverOpen /\ reachable /\ ~failedSinceConnect

\* execute_read_query returns records: RuntimeError without a driver, and the
\* session raises when the driver is closed or the store does not answer
ReadQueryOk == DriverOpen /\ reachable

\* connect(): self.driver is assigned as soon as GraphDatabase.driver returns
\* (createOk), then verify_connectivity raises when the store does not answer;
\* the handler logs and re-raises and leaves self.driver as it is
ConnectRaises(createOk) == ~(createOk /\ reachable)

ConnectBody(caller, createOk) ==
    /\ createOk => \E d \in 1..MaxDrivers : drivers[d] = "unopened"
    /\ IF createOk
       THEN /\ driver' = Fresh
            /\ drivers' = [drivers EXCEPT ![Fresh] = "open"]
            /\ failedSinceConnect' = FALSE
       ELSE UNCHANGED <<driver, drivers, failedSinceConnect>>
    /\ last' = [Call("connect", caller) EXCEPT
                  !.outcome = IF ConnectRaises(createOk) THEN "error" ELSE "ok"]

\* close(): closes the driver self.driver refers to, and keeps the reference
CloseBody(caller) ==
    /\ drivers' = IF driver = NoDriver THEN drivers
                  ELSE [drivers EXCEPT ![driver] = "closed"]
    /\ last' = [Call("close", caller) EXCEPT !.outcome = "ok"]
    /\ UNCHANGED <<driver, failedSinceConnect>>

connect(createOk) ==
    /\ Idle
    /\ phase \in {"loaded", "running"}
    /\ ConnectBody("caller", createOk)
    /\ UNCHANGED <<graph, requests, sessions, reachable, phase>>

close ==
    /\ Idle
    /\ phase \in {"loaded", "running"}
    /\ CloseBody("caller")
    /\ UNCHANGED <<graph, requests, sessions, reachable, phase>>

\* server.py at import: connect() inside try / except, the failure is logged
module_load(createOk) ==
    /\ Idle
    /\ phase = "init"
    /\ ConnectBody("module_load", createOk)
    /\ phase' = "loaded"
    /\ UNCHANGED <<graph, requests, sessions, reachable>>

\* run_server: connect(), re-raised on failure; then mcp.run
run_server(createOk) ==
    /\ Idle
    /\ phase = "loaded"
    /\ ConnectBody("run_server", createOk)
    /\ phase' = IF ConnectRaises(createOk) THEN "aborted" ELSE "running"
    /\ UNCHANGED <<graph, requests, sessions, reachable>>

\* run_server's finally, when mcp.run ends: close()
shutdown ==
    /\ Idle
    /\ phase = "running"
    /\ CloseBody("run_server")
    /\ phase' = "stopped"
    /\ UNCHANGED <<graph, requests, sessions, reachable>>

\* the store stops or starts answering between two requests
StoreChanges ==
    /\ Idle
    /\ phase \in {"loaded", "running"}
    /\ reachable' = ~reachable
    /\ UNCHANGED <<graph, driver, drivers, phase, failedSinceConnect, requests,
                   sessions, last>>

\* a request served by the tool get_process_status on the client as it is
Request(process_number) ==
    /\ Idle
    /\ phase \in {"loaded", "running"}
    /\ last' \in ProcessStatusToolOutcomes(process_number, ReadQueryOk)
    /\ failedSinceConnect' = (failedSinceConnect \/ (DriverOpen /\ ~reachable))
    /\ UNCHANGED <<graph, driver, drivers, reachable, phase, requests, sessions>>

\* ------------------------------------------------------------ search
\* a variant without  AND print.number IN print.processPrint
PrintConditionSummaryOnly(p) == prints[p].summary

\* WHERE print.summary IS NOT NULL AND print.number IN print.processPrint
PrintCondition(p) == prints[p].summary /\ prints[p].inProcessPrint

\* a variant that keeps one row for every stage instead of the first stage
CollectLatestEveryStage(sortedRows) == Range(sortedRows)

\* WITH print, score, process, COLLECT(stage)[0] as latestStage: the
\* latestStage values of one print's group of rows
CollectLatest(sortedRows) == {CollectHead(sortedRows)}

\* the result rows of one candidate print, before the status filter
SearchRows(p, score, arrival) ==
    {[number |-> p, score |-> score, documentDate |-> prints[p].documentDate,
      process |-> prints[p].process, latestStage |-> latestStage] :
        latestStage \in CollectLatest(OrderByStage(PrintStageRows(p, arrival)))}

\* a variant of the 'active' filter without  OR latestStage.type IS NULL
VectorStatusFilterNoNullType(filter, row) ==
    IF filter = "active"
    THEN \/ row.process = NoProcess
         \/ row.latestStage.number = 0
         \/ Not3(InTerminalTypes(row.latestStage.type)) = "true"
    ELSE IF filter = "finished"
    THEN InTerminalTypes(row.latestStage.type) = "true"
    ELSE TRUE

\* the WHERE clause search_prints_by_query appends for status_filter; a
\* WHERE keeps the rows whose condition is true, not those where it is null
VectorStatusFilter(filter, row) ==
    IF filter = "active"
    THEN \/ row.process = NoProcess
         \/ row.latestStage.number = 0
         \/ row.latestStage.type = NoType
         \/ Not3(InTerminalTypes(row.latestStage.type)) = "true"
    ELSE IF filter = "finished"
    THEN InTerminalTypes(row.latestStage.type) = "true"
    ELSE TRUE

\* a variant that filters every status_filter but 'active' as 'finished'
FulltextStatusFilterElseFinished(filter, row) ==
    IF filter = "active"
    THEN \/ row.process = NoProcess
         \/ row.latestStage.number = 0
         \/ row.latestStage.type = NoType
         \/ Not3(InTerminalTypes(row.latestStage.type)) = "true"
    ELSE InTerminalTypes(row.latestStage.type) = "true"

\* a variant of the 'active' filter that wants a linked process
FulltextStatusFilterLinkedOnly(filter, row) ==
    IF filter = "active"
    THEN /\ row.process # NoProcess
         /\ \/ row.latestStage.number = 0
            \/ row.latestStage.type = NoType
            \/ Not3(InTerminalTypes(row.latestStage.type)) = "true"
    ELSE IF filter = "finished"
    THEN InTerminalTypes(row.latestStage.type) = "true"
    ELSE TRUE

\* the WHERE clause _search_prints_fulltext appends for status_filter
FulltextStatusFilter(filter, row) ==
    IF filter = "active"
    THEN \/ row.process = NoProcess
         \/ row.latestStage.number = 0
         \/ row.latestStage.type = NoType
         \/ Not3(InTerminalTypes(row.latestStage.type)) = "true"
    ELSE IF filter = "finished"
    THEN InTerminalTypes(row.latestStage.type) = "true"
    ELSE TRUE

\* RETURN print.number, ..., latestStage.stageName, latestStage.date, score
PrintShort(row) ==
    [number |-> row.number, documentDate |-> row.documentDate,
     currentStage |-> row.latestStage.number, stageDate |-> row.latestStage.date,
     score |-> row.score]

\* ORDER BY score DESC
FulltextBefore(a, b) == a.score > b.score

\* ORDER BY score ASC, print.documentDate DESC
VectorBefore(a, b) ==
    \/ a.score < b.score
    \/ a.score = b.score /\ DescKey(a.documentDate) > DescKey(b.documentDate)

\* the orders an ORDER BY may give a set of rows: no row before one that
\* sorts strictly before it, rows with equal keys in any order
FulltextOrderings(S) ==
    {s \in SeqsOf(S) : \A i, j \in 1..Len(s) : i < j => ~FulltextBefore(s[j], s[i])}

VectorOrderings(S) ==
    {s \in SeqsOf(S) : \A i, j \in 1..Len(s) : i < j => ~VectorBefore(s[j], s[i])}

\* {"query": query_text}: the text goes to the index as it came
SubmittedQuery(text) == text

\* the index parses the text it is given: the words joined by AND are
\* required, every other word is optional (OR is the default operator)
QueryWords(tokens) == Range(tokens) \ Operators

RequiredWords(tokens) ==
    {tokens[i] : i \in {j \in 1..Len(tokens) :
        /\ tokens[j] \notin Operators
        /\ \/ j > 1 /\ tokens[j - 1] = "AND"
           \/ j < Len(tokens) /\ tokens[j + 1] = "AND"}}

\* a text the index can parse: words with single operators between them
WellFormed(tokens) ==
    /\ tokens # <<>>
    /\ tokens[1] \notin Operators
    /\ tokens[Len(tokens)] \notin Operators
    /\ \A i \in 1..(Len(tokens) - 1) :
          ~(tokens[i] \in Operators /\ tokens[i + 1] \in Operators)

\* a variant of the index whose default operator is AND
QueryMatchesEveryWord(tokens, words) == QueryWords(tokens) \subseteq words

\* the document with these words is a hit of the parsed text
QueryMatches(tokens, words) ==
    /\ RequiredWords(tokens) \subseteq words
    /\ RequiredWords(tokens) # {} \/ QueryWords(tokens) \cap words # {}

\* the hits of the index for a text it can parse
IndexAnswer(tokens) ==
    {p \in Prints : fulltextScore[p] > 0 /\ QueryMatches(tokens, indexed[p])}

\* CALL db.index.fulltext.queryNodes("print_content", $query): every hit
FulltextHits == IndexAnswer(SubmittedQuery(queryText))

\* the lists _search_prints_fulltext can return
FulltextResults(limit, filter) ==
    UNION {
        LET rows == UNION {SearchRows(p, fulltextScore[p], arrivals[p]) :
                              p \in {h \in FulltextHits : PrintCondition(h)}}
            kept == {PrintShort(r) : r \in {x \in rows : FulltextStatusFilter(filter, x)}}
        IN  {Take(s, limit) : s \in FulltextOrderings(kept)}
        : arrivals \in Arrivals}

\* CALL db.index.vector.queryNodes('printEmbeddingIndex', $limit * 2,
\* $embedding): the sets of k nearest prints, ties at the cut either way
NearestBefore(a, b) == vectorScore[a] > vectorScore[b]

NearestOrderings(S) ==
    {s \in SeqsOf(S) : \A i, j \in 1..Len(s) : i < j => ~NearestBefore(s[j], s[i])}

VectorHits(k) ==
    {Range(Take(s, k)) : s \in NearestOrderings({p \in Prints : vectorScore[p] > 0})}

\* the lists the vector query of search_prints_by_query can return
VectorResults(limit, filter) ==
    UNION {
        LET rows == UNION {SearchRows(p, vectorScore[p], arrivals[p]) :
                              p \in {h \in hits : PrintCondition(h)}}
            kept == {PrintShort(r) : r \in {x \in rows : VectorStatusFilter(filter, x)}}
        IN  {Take(s, limit) : s \in VectorOrderings(kept)}
        : arrivals \in Arrivals, hits \in VectorHits(limit * 2)}

SearchCall(op, limit, filter, calls) ==
    [Call(op, "") EXCEPT !.limit = limit, !.filter = filter, !.calls = calls]

Returned(r, rows) == [r EXCEPT !.outcome = "ok", !.rows = rows]

\* what _search_prints_fulltext, called by search_prints_by_query, leaves behind
FulltextCall(limit, filter) ==
    [SearchCall("search_prints_by_query", limit, filter,
                {"_search_prints_fulltext", "fulltext.queryNodes"})
        EXCEPT !.submitted = SubmittedQuery(queryText), !.storeLimit = limit]

\* the index raises on a text it cannot parse; given an empty text it raises
\* or has no hit
_search_prints_fulltext(limit, filter) ==
    IF WellFormed(SubmittedQuery(queryText))
    THEN {Returned(FulltextCall(limit, filter), rows) :
             rows \in FulltextResults(limit, filter)}
    ELSE {Raised(FulltextCall(limit, filter))}
         \cup (IF SubmittedQuery(queryText) = <<>>
                THEN {Returned(FulltextCall(limit, filter), <<>>)} ELSE {})

\* embeddings_service.is_available()
is_available == client

\* generate_embedding: raises when the client is None or when the provider's
\* call raises (logged and re-raised), returns the embedding otherwise
generate_embedding(embedOk) == is_available /\ embedOk

\* a variant that asks for the embedding without asking is_available first
SearchOutcomesAlwaysEmbeds(limit, filter, embedOk) ==
    IF ~generate_embedding(embedOk)
    THEN {Raised(SearchCall("search_prints_by_query", limit, filter,
                            {"generate_embedding"}))}
    ELSE {Returned([SearchCall("search_prints_by_query", limit, filter,
                               {"generate_embedding", "vector.queryNodes"})
                       EXCEPT !.storeLimit = limit], rows) :
             rows \in VectorResults(limit, filter)}

\* what search_prints_by_query leaves behind; embedOk: the provider's call
\* returns an embedding rather than raising
SearchOutcomes(limit, filter, embedOk) ==
    IF ~is_available
    THEN _search_prints_fulltext(limit, filter)
    ELSE IF ~generate_embedding(embedOk)
    THEN {Raised(SearchCall("search_prints_by_query", limit, filter,
                            {"generate_embedding"}))}
    ELSE {Returned([SearchCall("search_prints_by_query", limit, filter,
                               {"generate_embedding", "vector.queryNodes"})
                       EXCEPT !.storeLimit = limit], rows) :
             rows \in VectorResults(limit, filter)}

search_prints_by_query(limit, filter, embedOk) ==
    /\ Idle
    /\ last' \in SearchOutcomes(limit, filter, embedOk)
    /\ UNCHANGED store

\* ------------------------------------------------------- specifications
\* the sets of stages a process can have: ordinals are unique in a process
HistoryTypes == StageTypes \ {"REJECTION"}

StageSets ==
    UNION {{{[number |-> n, date |-> f[n][1], type |-> f[n][2]] : n \in D} :
               f \in [D -> (0..MaxDate) \X HistoryTypes]} :
           D \in SUBSET (1..MaxStages)}

\* the histories of a process that hold a rejection of the bill: dated stages
\* of distinct ordinals, each a rejection or a publication
RejectionStageSets ==
    {S \in UNION {{{[number |-> n, date |-> f[n][1], type |-> f[n][2]] : n \in D} :
                      f \in [D -> (1..MaxDate) \X {"REJECTION", "PUBLICATION"}]} :
                  D \in SUBSET (1..MaxStages)} :
        \E st \in S : st.type = "REJECTION"}

\* a process with at most one stage, numbered 1 and dated 1
ShortStageSets == {S \in StageSets : \A s \in S : s.number = 1 /\ s.date = 1}

\* a print with a summary that is the main print of its process
MainPrints == {n \in PrintNode : n.summary /\ n.inProcessPrint /\ n.documentDate = 1}

TypeOK ==
    /\ prints \in [Prints -> PrintNode]
    /\ stages \in [Procs -> StageSets \cup RejectionStageSets]
    /\ fulltextScore \in [Prints -> 0..MaxScore]
    /\ vectorScore \in [Prints -> 0..MaxScore]
    /\ client \in BOOLEAN
    /\ queryText \in Seq(Terms)
    /\ indexed \in [Prints -> SUBSET Terms]
    /\ persons \in SUBSET PersonNode
    /\ clubs \subseteq ClubNames
    /\ authored \in [ClubNames -> SUBSET Prints]
    /\ refersTo \in [Prints -> [ReferredLabels -> 0..MaxNeighbors]]
    /\ driver \in {NoDriver} \cup 1..MaxDrivers
    /\ drivers \in [1..MaxDrivers -> {"unopened", "open", "closed"}]
    /\ reachable \in BOOLEAN
    /\ phase \in Phases
    /\ failedSinceConnect \in BOOLEAN
    /\ DOMAIN requests = Callers
    /\ \A c \in Callers :
          /\ requests[c].pc \in {"idle", "called", "session", "read", "done"}
          /\ requests[c].session \in Sessions \cup {NoSession}
    /\ DOMAIN sessions = Sessions
    /\ \A x \in Sessions : sessions[x].open \in BOOLEAN

\* the server is running on one open driver and the store answers
Serving ==
    /\ driver = 1
    /\ drivers = [d \in 1..MaxDrivers |-> IF d = 1 THEN "open" ELSE "unopened"]
    /\ reachable = TRUE
    /\ phase = "running"
    /\ failedSinceConnect = FALSE
    /\ NoRequests

\* one person of an integer id with one relationship, and one club
OnePerson ==
    /\ persons = {[id |-> [kind |-> "int", val |-> "400"],
                   rels |-> [t \in RelTypes |-> IF t = "AUTHORED" THEN 1 ELSE 0]]}
    /\ clubs = ClubNames
    /\ authored = [c \in ClubNames |-> {"p1"}]
    /\ refersTo = [p \in Prints |-> [l \in ReferredLabels |-> 0]]

\* one query of one word that the index holds of every print
OneWord ==
    /\ queryText = <<"a">>
    /\ indexed = [p \in Prints |-> {"a"}]

\* every stage history of process A, every link of a print to a process
InitHistories ==
    /\ prints \in [Prints -> MainPrints]
    /\ stages \in {f \in [Procs -> StageSets] : f["B"] = {}}
    /\ fulltextScore = [p \in Prints |-> IF p = "p1" THEN 2 ELSE 1]
    /\ vectorScore = [p \in Prints |-> IF p = "p1" THEN 2 ELSE 1]

\* the histories of a process on which the searches are explored: every set of
\* stages of a terminal type, a non-terminal type or no type
IndexStageSets ==
    {S \in StageSets : \A st \in S : st.type \in {"PUBLICATION", "OTHER", NoType}}

\* print p1 of process A with such a history, print p2 without a process
InitIndexHistories ==
    /\ prints \in {f \in [Prints -> MainPrints] :
                      f["p1"].process = "A" /\ f["p2"].process = NoProcess}
    /\ stages \in {f \in [Procs -> IndexStageSets] : f["B"] = {}}
    /\ fulltextScore = [p \in Prints |-> IF p = "p1" THEN 2 ELSE 1]
    /\ vectorScore = [p \in Prints |-> IF p = "p1" THEN 2 ELSE 1]

\* every answer of the index the search asks, the other index knowing a print
\* or not; every print without a process or with a process of its own that
\* has at most one stage
InitScores ==
    /\ prints \in {f \in [Prints -> MainPrints] :
                      f["p1"].process # "B" /\ f["p2"].process # "A"}
    /\ stages \in {f \in [Procs -> ShortStageSets] :
                      \A pr \in Procs : ProcessPrints(pr) = {} => f[pr] = {}}
    /\ fulltextScore \in [Prints -> IF client THEN 0..1 ELSE 0..MaxScore]
    /\ vectorScore \in [Prints -> IF client THEN 0..MaxScore ELSE 0..1]

\* every print with or without summary, main print or not, of any date,
\* both prints equally good answers of both indexes
InitPrints ==
    /\ prints \in {f \in [Prints -> PrintNode] : \A p \in Prints : f[p].process = NoProcess}
    /\ stages = [pr \in Procs |-> {}]
    /\ fulltextScore = [p \in Prints |-> 1]
    /\ vectorScore = [p \in Prints |-> 1]

\* print p1 of process A, whose history holds a rejection
InitRejections ==
    /\ prints \in {f \in [Prints -> MainPrints] :
                      f["p1"].process = "A" /\ f["p2"].process = NoProcess}
    /\ stages \in {f \in [Procs -> StageSets \cup RejectionStageSets] :
                      f["A"] \in RejectionStageSets /\ f["B"] = {}}
    /\ fulltextScore = [p \in Prints |-> IF p = "p1" THEN 2 ELSE 1]
    /\ vectorScore = [p \in Prints |-> IF p = "p1" THEN 2 ELSE 1]

\* print p1 the initiating print of process A, print p2 a supplementary print
\* (its number is not in its processPrint) of process A or of none
InitSupplementary ==
    /\ prints \in {f \in [Prints -> PrintNode] :
                      /\ f["p1"] \in MainPrints /\ f["p1"].process = "A"
                      /\ f["p2"].summary /\ ~f["p2"].inProcessPrint
                      /\ f["p2"].documentDate = 1
                      /\ f["p2"].process \in {"A", NoProcess}}
    /\ stages \in {f \in [Procs -> StageSets] : f["B"] = {}}
    /\ fulltextScore = [p \in Prints |-> IF p = "p1" THEN 2 ELSE 1]
    /\ vectorScore = [p \in Prints |-> IF p = "p1" THEN 2 ELSE 1]

Init ==
    /\ InitHistories \/ InitRejections \/ InitSupplementary
    /\ OneWord
    /\ OnePerson
    /\ Serving
    /\ client = FALSE
    /\ last = NoResult

InitIndex ==
    /\ client \in BOOLEAN
    /\ InitScores \/ InitPrints \/ InitIndexHistories
    /\ OneWord
    /\ OnePerson
    /\ Serving
    /\ last = NoResult

\* the query texts: no word, one word, several words
Queries == UNION {[1..n -> Terms] : n \in 0..MaxTerms}

\* the arguments a caller can pass: a limit below, at and above MAX_LIMIT, a
\* status filter the code knows or not
RequestLimits  == {1, MAX_LIMIT, MAX_LIMIT + 1}
RequestFilters == StatusFilters \cup {"bogus"}

\* every query text over every content of the index; print p1 of a finished
\* process, print p2 without a process
InitQuery ==
    /\ client \in BOOLEAN
    /\ prints = [p \in Prints |->
                   [summary |-> TRUE, inProcessPrint |-> TRUE, documentDate |-> 1,
                    process |-> IF p = "p1" THEN "A" ELSE NoProcess]]
    /\ stages = [pr \in Procs |->
                   IF pr = "A" THEN {[number |-> 1, date |-> 1, type |-> "PUBLICATION"]}
                   ELSE {}]
    /\ fulltextScore = [p \in Prints |-> IF p = "p1" THEN 2 ELSE 1]
    /\ vectorScore = [p \in Prints |-> IF p = "p1" THEN 1 ELSE 2]
    /\ queryText \in Queries
    /\ indexed \in [Prints -> SUBSET Terms]
    /\ OnePerson
    /\ Serving
    /\ last = NoResult

Requests ==
    \E limit \in RequestLimits, filter \in RequestFilters :
        \E embedOk \in (IF is_available THEN BOOLEAN ELSE {TRUE}) :
            search_prints_by_query(limit, filter, embedOk)

Lookups ==
    \/ \E processNumber \in ProcKeys : get_process_status(processNumber)
    \/ \E printNumber \in PrintKeys : get_process_details(printNumber)
    \/ \E printNumber \in PrintKeys : get_print_details(printNumber)

\* the provider's answer is an input only when the provider is called
Searches ==
    \E limit \in 1..MaxLimit, filter \in StatusFilters :
        \E embedOk \in (IF is_available THEN BOOLEAN ELSE {TRUE}) :
            search_prints_by_query(limit, filter, embedOk)

\* the stores on which the tools are explored: print p1 of process A, which has
\* at most one stage, print p2 without a process, at most one Person node,
\* of an integer or a string id, and at most one Club node
InitTools ==
    /\ prints = [p \in Prints |->
                   [summary |-> TRUE, inProcessPrint |-> TRUE, documentDate |-> 1,
                    process |-> IF p = "p1" THEN "A" ELSE NoProcess]]
    /\ stages \in {f \in [Procs -> ShortStageSets] : f["B"] = {}}
    /\ fulltextScore = [p \in Prints |-> IF p = "p1" THEN 2 ELSE 1]
    /\ vectorScore = [p \in Prints |-> IF p = "p1" THEN 2 ELSE 1]
    /\ OneWord
    /\ client = FALSE
    /\ persons \in {{}} \cup {{n} : n \in PersonNode}
    /\ clubs \in SUBSET ClubNames
    /\ authored = [c \in ClubNames |-> {}]
    /\ refersTo = [p \in Prints |-> [l \in ReferredLabels |-> 0]]
    /\ Serving
    /\ last = NoResult

Topics  == {"podatki"}
NodeIds == PersonKeys \cup PrintKeys \cup ProcKeys

PeopleLookups ==
    \/ \E person_id \in PersonKeys : get_person_activity(person_id)
    \/ \E club_name \in ClubKeys : get_club_statistics(club_name)

NodeNeighbors ==
    \E node_type \in NodeTypes, node_id \in NodeIds, limit \in 1..MaxLimit,
       storeOk \in BOOLEAN :
        get_node_neighbors(node_type, node_id, limit, storeOk)

Tools ==
    \/ \E topic \in Topics, limit \in RequestLimits :
          tool_search_active_prints_by_topic(topic, limit)
    \/ \E print_number \in PrintKeys, storeOk \in BOOLEAN, commentsOk \in BOOLEAN :
          tool_get_print_details(print_number, storeOk, commentsOk)
    \/ \E process_number \in ProcKeys, storeOk \in BOOLEAN :
          tool_get_process_status(process_number, storeOk)
    \/ \E name \in Topics, storeOk \in BOOLEAN, found \in BOOLEAN :
          tool_find_mp_by_name(name, storeOk, found)
    \/ \E person_id \in PersonKeys, storeOk \in BOOLEAN :
          tool_get_mp_activity(person_id, storeOk)
    \/ \E topic_name \in Topics, limit \in RequestLimits :
          tool_get_similar_topics(topic_name, limit)
    \/ \E topic_name \in Topics : tool_get_topic_statistics(topic_name)
    \/ \E club_name \in ClubKeys, storeOk \in BOOLEAN :
          tool_get_club_statistics(club_name, storeOk)
    \/ \E storeOk \in BOOLEAN, found \in BOOLEAN : tool_list_clubs(storeOk, found)
    \/ \E query \in Topics, limit \in RequestLimits : tool_search_all(query, limit)

NextTools ==
    Tools \/ Lookups \/ PeopleLookups \/ NodeNeighbors \/ Searches \/ ReturnToCaller

SpecTools == InitTools /\ [][NextTools]_vars

\* the process before server.py is imported: no driver yet
InitClient ==
    /\ prints = [p \in Prints |->
                   [summary |-> TRUE, inProcessPrint |-> TRUE, documentDate |-> 1,
                    process |-> IF p = "p1" THEN "A" ELSE NoProcess]]
    /\ stages \in {f \in [Procs -> ShortStageSets] : f["B"] = {}}
    /\ fulltextScore = [p \in Prints |-> IF p = "p1" THEN 2 ELSE 1]
    /\ vectorScore = [p \in Prints |-> IF p = "p1" THEN 2 ELSE 1]
    /\ OneWord
    /\ OnePerson
    /\ client = FALSE
    /\ driver = NoDriver
    /\ drivers = [d \in 1..MaxDrivers |-> "unopened"]
    /\ reachable \in BOOLEAN
    /\ phase = "init"
    /\ failedSinceConnect = FALSE
    /\ NoRequests
    /\ last = NoResult

NextClient ==
    \/ \E createOk \in BOOLEAN : module_load(createOk)
    \/ \E createOk \in BOOLEAN : run_server(createOk)
    \/ shutdown
    \/ \E createOk \in BOOLEAN : connect(createOk)
    \/ close
    \/ StoreChanges
    \/ \E process_number \in ProcKeys : Request(process_number)
    \/ ReturnToCaller

SpecClient == InitClient /\ [][NextClient]_vars

\* the stores on which the statistics and the neighbours are explored: the
\* author of the club authored any of the prints, print p1 refers to topics
\* and organizations, Person 400 is that author
InitGraph ==
    /\ prints \in {f \in [Prints -> MainPrints] :
                      f["p1"].process = "A" /\ f["p2"].process \in {"A", NoProcess}}
    /\ stages \in {f \in [Procs -> ShortStageSets] : f["B"] = {}}
    /\ fulltextScore = [p \in Prints |-> IF p = "p1" THEN 2 ELSE 1]
    /\ vectorScore = [p \in Prints |-> IF p = "p1" THEN 2 ELSE 1]
    /\ OneWord
    /\ client = FALSE
    /\ clubs = ClubNames
    /\ authored \in [ClubNames -> SUBSET Prints]
    /\ refersTo \in {f \in [Prints -> [ReferredLabels -> 0..MaxNeighbors]] :
                        \A l \in ReferredLabels : f["p2"][l] = 0}
    /\ persons = {[id |-> [kind |-> "int", val |-> "400"],
                   rels |-> [t \in RelTypes |->
                               IF t = "AUTHORED" THEN Cardinality(authored["KO"]) ELSE 0]]}
    /\ Serving
    /\ last = NoResult

NextGraph ==
    \/ \E club_name \in ClubKeys : get_club_statistics(club_name)
    \/ NodeNeighbors
    \/ ReturnToCaller

SpecGraph == InitGraph /\ [][NextGraph]_vars

\* ------------------------------------------------ concurrent query operations
\* the query operations two callers can have under way at once
ConcurrentOps == {"get_process_status", "get_print_details"}

OperationKeys(op) == IF op = "get_process_status" THEN ProcKeys ELSE PrintKeys

\* what the operation returns when it is the only one under way
QueryOutcomes(op, arg) ==
    IF op = "get_process_status" THEN ProcessStatusOutcomes(arg)
    ELSE PrintDetailOutcomes(arg)

\* a variant that keeps one session on the client for every call
SharedSession(c) == "s1"

\* self.driver.session(): a session of its own for the call
NewSession(c) == CHOOSE x \in Sessions : ~sessions[x].open

\* a method of QueryService is entered; execute_read_query finds self.driver set
begin_request(c, op, arg) ==
    /\ requests[c].pc = "idle"
    /\ driver # NoDriver
    /\ requests' = [requests EXCEPT ![c] =
                       [NoRequest EXCEPT !.pc = "called", !.op = op, !.arg = arg]]
    /\ UNCHANGED <<graph, driver, drivers, reachable, phase, failedSinceConnect,
                   sessions, last>>

\* with self.driver.session() as session
open_session(c) ==
    /\ requests[c].pc = "called"
    /\ LET x == NewSession(c) IN
         /\ sessions' = [sessions EXCEPT ![x] = [open |-> TRUE, records |-> NoResult]]
         /\ requests' = [requests EXCEPT ![c].pc = "session", ![c].session = x]
    /\ UNCHANGED <<graph, driver, drivers, reachable, phase, failedSinceConnect, last>>

\* session.execute_read(_execute_read): the transaction of the session reads
\* the rows of the caller's query
execute_read(c) ==
    /\ requests[c].pc = "session"
    /\ \E records \in QueryOutcomes(requests[c].op, requests[c].arg) :
          sessions' = [sessions EXCEPT ![requests[c].session].records = records]
    /\ requests' = [requests EXCEPT ![c].pc = "read"]
    /\ UNCHANGED <<graph, driver, drivers, reachable, phase, failedSinceConnect, last>>

\* return records: the rows of the session go to the caller, the with block
\* closes the session
close_session(c) ==
    /\ requests[c].pc = "read"
    /\ requests' = [requests EXCEPT ![c].pc = "done",
                       ![c].result = sessions[requests[c].session].records]
    /\ sessions' = [sessions EXCEPT ![requests[c].session] = FreeSession]
    /\ UNCHANGED <<graph, driver, drivers, reachable, phase, failedSinceConnect, last>>

\* the caller has its result; its locals are gone
end_request(c) ==
    /\ requests[c].pc = "done"
    /\ requests' = [requests EXCEPT ![c] = NoRequest]
    /\ UNCHANGED <<graph, driver, drivers, reachable, phase, failedSinceConnect,
                   sessions, last>>

\* print p1 of process A, which has at most one stage, print p2 of process A
\* or of none
InitConcurrent ==
    /\ prints \in {f \in [Prints -> MainPrints] :
                      f["p1"].process = "A" /\ f["p2"].process \in {"A", NoProcess}}
    /\ stages \in {f \in [Procs -> ShortStageSets] : f["B"] = {}}
    /\ fulltextScore = [p \in Prints |-> IF p = "p1" THEN 2 ELSE 1]
    /\ vectorScore = [p \in Prints |-> IF p = "p1" THEN 2 ELSE 1]
    /\ OneWord
    /\ OnePerson
    /\ Serving
    /\ client = FALSE
    /\ last = NoResult

NextConcurrent ==
    \/ \E c \in Callers, op \in ConcurrentOps :
          \E arg \in OperationKeys(op) : begin_request(c, op, arg)
    \/ \E c \in Callers : open_session(c)
    \/ \E c \in Callers : execute_read(c)
    \/ \E c \in Callers : close_session(c)
    \/ \E c \in Callers : end_request(c)

SpecConcurrent == InitConcurrent /\ [][NextConcurrent]_vars

Next == Lookups \/ ReturnToCaller

NextIndex == Searches \/ ReturnToCaller

Spec == Init /\ [][Next]_vars

SpecIndex == InitIndex /\ [][NextIndex]_vars

NextQuery == Requests \/ ReturnToCaller

SpecQuery == InitQuery /\ [][NextQuery]_vars

\* ---------------------------------------------------------------- claims
LookupOps == {"get_process_status", "get_process_details"}

\* the statuses get_process_status can report for a process
StatusesByProcessStatus(process) ==
    {ProcessStatusRecord(process, arrival).status : arrival \in SeqsOf(stages[process])}

\* the statuses get_process_details can report for the process of a print
StatusesByProcessDetails(printNumber) ==
    {ProcessDetailRecord(printNumber, printArrival, arrival).status :
        printArrival \in SeqsOf(ProcessPrints(prints[printNumber].process)),
        arrival \in SeqsOf(stages[prints[printNumber].process])}

\* the stages of the process that carry the ordinal the result reports as current
CurrentStages(r) == {s \in stages[r.processNumber] : s.number = r.currentStage}

IsLatestStage(cur, S) ==
    /\ cur \in S
    /\ \A s \in S \ {cur} :
          s.date # NoDate =>
              /\ cur.date # NoDate
              /\ \/ cur.date > s.date
                 \/ cur.date = s.date /\ cur.number > s.number

StageOps == {"get_process_status", "get_process_details", "get_print_details"}

\* C2: for a non-empty set of stages, the stage reported as current is the
\* one with the greatest date, ties on the date broken by the greatest ordinal
C2_LatestStage ==
    (/\ last.op \in StageOps
     /\ last.outcome = "ok"
     /\ last.processNumber # NoProcess
     /\ stages[last.processNumber] # {}) =>
        \E cur \in CurrentStages(last) :
            /\ cur.date = last.stageDate
            /\ IsLatestStage(cur, stages[last.processNumber])

SearchOk == last.op = "search_prints_by_query" /\ last.outcome = "ok"

Keys(rows) == {rows[i].number : i \in 1..Len(rows)}

KeySeq(rows) == [i \in 1..Len(rows) |-> rows[i].number]

\* what the classifier (get_process_status) can report for a process
ClassifierRecords(process) ==
    {ProcessStatusRecord(process, arrival) : arrival \in SeqsOf(stages[process])}

\* the classification of a print: that of its process, 'unknown' without one
Classifications(p) ==
    IF prints[p].process = NoProcess THEN {"unknown"}
    ELSE {r.status : r \in ClassifierRecords(prints[p].process)}

\* no linked process, or no stages, or the type of the classifier's latest
\* stage is not a terminal one
PassesActive(p) ==
    \/ prints[p].process = NoProcess
    \/ stages[prints[p].process] = {}
    \/ \A r \in ClassifierRecords(prints[p].process) :
          \A st \in CurrentStages(r) : st.type \notin TerminalTypes

PassesFinished(p) == Classifications(p) = {"finished"}

Passes(filter, p) ==
    IF filter = "active" THEN PassesActive(p)
    ELSE IF filter = "finished" THEN PassesFinished(p)
    ELSE TRUE

\* the sets of candidate prints the status filter of the last search can have
\* been applied to
CandidateSets ==
    IF "vector.queryNodes" \in last.calls
    THEN {{p \in hits : PrintCondition(p)} : hits \in VectorHits(last.limit * 2)}
    ELSE {{p \in FulltextHits : PrintCondition(p)}}

\* C3: on either search path a candidate print passes the 'active' filter iff
\* it has no linked process, or its process has no stages, or its latest
\* stage's type is not terminal, and passes the 'finished' filter iff the
\* classifier reports 'finished' for its process: every returned print passes,
\* and a list shorter than the limit holds every candidate that passes
C3_FilterAgreesWithClassifier ==
    (SearchOk /\ last.filter \in {"active", "finished"}) =>
        /\ \A p \in Keys(last.rows) : Passes(last.filter, p)
        /\ Len(last.rows) < last.limit =>
               \E candidates \in CandidateSets :
                   Keys(last.rows) = {p \in candidates : Passes(last.filter, p)}

\* the vector search filtered 'active' returned a print whose latest stage has
\* no type and left out a print whose process is finished
C3_Witness ==
    /\ SearchOk
    /\ "vector.queryNodes" \in last.calls
    /\ last.filter = "active"
    /\ Len(last.rows) < last.limit
    /\ \E p \in Keys(last.rows) :
          /\ prints[p].process # NoProcess
          /\ \E r \in ClassifierRecords(prints[p].process) :
                \E st \in CurrentStages(r) : st.type = NoType
    /\ \E p \in Prints \ Keys(last.rows) :
          PrintCondition(p) /\ vectorScore[p] > 0 /\ PassesFinished(p)

\* the lists search_prints_by_query can return over the store as it is
ResultsFor(limit, filter) == {r.rows : r \in SearchOutcomes(limit, filter, TRUE)}

\* C4 as stated: the keys of a search filtered 'active' or 'finished' are
\* among the keys of the unfiltered search of the same limit
C4_FilteredSubsetOfAll ==
    (SearchOk /\ last.filter \in {"active", "finished"}) =>
        \E all \in ResultsFor(last.limit, "all") : Keys(last.rows) \subseteq Keys(all)

\* C4: the keys of a search filtered 'active' or 'finished' are among the keys
\* of the unfiltered search of the same limit whenever the unfiltered search
\* returns fewer documents than the limit
C4_FilteredSubsetOfUncutAll ==
    (SearchOk /\ last.filter \in {"active", "finished"}) =>
        \A all \in ResultsFor(last.limit, "all") :
            Len(all) < last.limit => Keys(last.rows) \subseteq Keys(all)

\* a filtered search returned one of the two documents of an unfiltered
\* search that the limit did not cut
C4_Witness ==
    /\ SearchOk
    /\ last.filter \in {"active", "finished"}
    /\ Len(last.rows) = 1
    /\ \E all \in ResultsFor(last.limit, "all") : Len(all) = 2 /\ Len(all) < last.limit

\* C5 as stated: the keys returned with 'active' and with 'finished' together
\* are the keys returned with 'all' whose classification is not 'unknown'
C5_UnionIsClassifiedAll ==
    (SearchOk /\ last.filter = "all") =>
        \E active \in ResultsFor(last.limit, "active"),
           finished \in ResultsFor(last.limit, "finished") :
            Keys(active) \cup Keys(finished) =
                {p \in Keys(last.rows) : "unknown" \notin Classifications(p)}

\* C5: when the unfiltered search returns fewer documents than the limit, the
\* keys returned with 'active' and with 'finished' together are all the keys
\* it returns, those classified 'unknown' included
C5_UnionIsUncutAll ==
    (SearchOk /\ last.filter = "all" /\ Len(last.rows) < last.limit) =>
        \A active \in ResultsFor(last.limit, "active"),
           finished \in ResultsFor(last.limit, "finished") :
            Keys(active) \cup Keys(finished) = Keys(last.rows)

\* an unfiltered search the limit did not cut returned a document classified
\* 'unknown' and a document classified 'finished'
C5_Witness ==
    /\ SearchOk
    /\ last.filter = "all"
    /\ Len(last.rows) < last.limit
    /\ \E p, q \in Keys(last.rows) :
          "unknown" \in Classifications(p) /\ PassesFinished(q)

\* C6: without an embeddings client search_prints_by_query does not raise,
\* returns what _search_prints_fulltext returns for the same limit and status
\* filter, and calls neither generate_embedding nor the vector index
C6_FallbackToFulltext ==
    (last.op = "search_prints_by_query" /\ ~is_available) =>
        /\ last.outcome = "ok"
        /\ last.rows \in FulltextResults(last.limit, last.filter)
        /\ "generate_embedding" \notin last.calls
        /\ "vector.queryNodes" \notin last.calls

\* without a client a search returned a fulltext hit that the vector index
\* does not know
C6_Witness ==
    /\ SearchOk
    /\ ~is_available
    /\ \E p \in Keys(last.rows) : vectorScore[p] = 0

\* the key sequences _search_prints_fulltext can return: pure lexical order
LexicalKeySeqs(limit, filter) == {KeySeq(rows) : rows \in FulltextResults(limit, filter)}

\* C7: a search whose embedding provider is configured but raises, while the
\* lexical search has results, does not propagate the error: it returns the
\* lexical results
C7_ProviderFailureDegrades ==
    (/\ last.op = "search_prints_by_query"
     /\ is_available
     /\ "vector.queryNodes" \notin last.calls
     /\ <<>> \notin LexicalKeySeqs(last.limit, last.filter)) =>
        /\ last.outcome = "ok"
        /\ KeySeq(last.rows) \in LexicalKeySeqs(last.limit, last.filter)

\* the candidate lists of the two sub-searches and a print's rank in each
LexicalCandidates == {p \in FulltextHits : PrintCondition(p)}

VectorCandidates == {p \in Prints : vectorScore[p] > 0 /\ PrintCondition(p)}

LexicalRank(p) ==
    1 + Cardinality({q \in LexicalCandidates : fulltextScore[q] > fulltextScore[p]})

VectorRank(p) ==
    1 + Cardinality({q \in VectorCandidates : vectorScore[q] > vectorScore[p]})

\* (60 + 1) * ... * (60 + n): the common denominator of the contributions
RECURSIVE RankProduct(_)
RankProduct(n) == IF n = 0 THEN 1 ELSE (60 + n) * RankProduct(n - 1)

\* 1 / (60 + rank) as a multiple of 1 / RankProduct(number of prints)
Contribution(rank) == RankProduct(Cardinality(Prints)) \div (60 + rank)

\* the sum of a print's contributions over the lists it appears in
FusedScore(p) ==
    (IF p \in LexicalCandidates THEN Contribution(LexicalRank(p)) ELSE 0)
    + (IF p \in VectorCandidates THEN Contribution(VectorRank(p)) ELSE 0)

Position(rows, p) == CHOOSE i \in 1..Len(rows) : rows[i].number = p

\* C8: in the fused search a document of both candidate lists, whose score is
\* the sum of its contributions 1/(60+rank), is ranked above a document of
\* only one list whose score is lower
C8_AgreementRankedAbove ==
    (SearchOk /\ is_available /\ last.filter = "all") =>
        \A d \in LexicalCandidates \cap VectorCandidates :
            \A e \in (LexicalCandidates \cup VectorCandidates)
                        \ (LexicalCandidates \cap VectorCandidates) :
                (FusedScore(d) > FusedScore(e) /\ e \in Keys(last.rows)) =>
                    /\ d \in Keys(last.rows)
                    /\ Position(last.rows, d) < Position(last.rows, e)

\* C9: with embeddings available and no candidate from the vector index the
\* search returns the lexical candidates in lexical order, an empty list
\* when there are none, and no error
C9_EmptyVectorGivesLexical ==
    (/\ last.op = "search_prints_by_query"
     /\ "vector.queryNodes" \in last.calls
     /\ \A p \in Prints : vectorScore[p] = 0) =>
        /\ last.outcome = "ok"
        /\ KeySeq(last.rows) \in LexicalKeySeqs(last.limit, last.filter)

RECURSIVE JoinOr(_)
JoinOr(tokens) ==
    IF Len(tokens) <= 1 THEN tokens
    ELSE <<Head(tokens), "OR">> \o JoinOr(Tail(tokens))

FulltextAsked == last.op = "search_prints_by_query" /\ "fulltext.queryNodes" \in last.calls

C12_ReturnedPrintsAreMainPrints ==
    SearchOk => \A p \in Keys(last.rows) : prints[p].summary /\ prints[p].inProcessPrint

\* a search the limit did not cut returned one print and left out an index
\* hit that has a summary but is not in its own processPrint list
C12_Witness ==
    /\ SearchOk
    /\ Len(last.rows) = 1
    /\ last.limit > 1
    /\ last.filter = "all"
    /\ \E p \in Prints \ Keys(last.rows) :
          /\ prints[p].summary /\ ~prints[p].inProcessPrint
          /\ fulltextScore[p] > 0 /\ vectorScore[p] > 0

\* C13: the list a search returns has at most limit elements
C13_AtMostLimit == SearchOk => Len(last.rows) <= last.limit

\* a search returned limit prints although more prints passed its conditions
C13_Witness ==
    /\ SearchOk
    /\ Len(last.rows) = last.limit
    /\ \E candidates \in CandidateSets :
          Cardinality({p \in candidates : Passes(last.filter, p)}) > last.limit

\* C15: a search over an unchanged store is deterministic: the list returned
\* is the only list the same query, limit and status filter can return
C15_Deterministic ==
    SearchOk => ResultsFor(last.limit, last.filter) = {last.rows}

\* the calls that reach the external store
StoreCalls == {"fulltext.queryNodes", "vector.queryNodes", "execute_read_query"}

\* C14: the limit a search sends to the store never exceeds MAX_LIMIT
C14_StoreLimitCapped ==
    (last.op = "search_prints_by_query" /\ last.calls \cap StoreCalls # {}) =>
        last.storeLimit <= MAX_LIMIT

\* C18: a search called with a status filter other than active, finished or
\* all, or with an empty query text, is rejected and sends the store nothing
C18_MalformedInputRejected ==
    (/\ last.op = "search_prints_by_query"
     /\ last.filter \notin StatusFilters \/ queryText = <<>>) =>
        /\ last.outcome = "rejected"
        /\ last.calls \cap StoreCalls = {}

\* C20: a process whose latest stage is the rejection of the bill is reported
\* 'finished' by get_process_status
C20_RejectionIsFinished ==
    (/\ last.op = "get_process_status"
     /\ last.outcome = "ok"
     /\ \E cur \in stages[last.processNumber] :
            /\ cur.type = "REJECTION"
            /\ IsLatestStage(cur, stages[last.processNumber])) =>
        last.status = "finished"

\* the tools
ToolCall == last.tool # ""

\* C16: whatever a tool is given and whatever fails below it, the tool
\* returns a string, and when an exception was raised below it that string is
\* an 'Error ...' message
C16_ToolsReturnStrings ==
    ToolCall =>
        /\ last.outcome = "string"
        /\ last.text \in {"output", "not found", "Error"}
        /\ last.caught => last.text = "Error"

\* the store failed under get_process_status and the tool returned 'Error ...'
C16_Witness ==
    /\ last.tool = "get_process_status"
    /\ last.caught
    /\ "execute_read_query" \in last.calls
    /\ last.outcome = "string"
    /\ last.text = "Error"

\* the lookups by key, and whether the key of the last one is of no node
KeyedLookups ==
    {"get_print_details", "get_process_details", "get_process_status",
     "get_person_activity", "get_club_statistics"}

UnknownKey ==
    IF last.op \in {"get_print_details", "get_process_details"}
    THEN last.arg \notin Prints
    ELSE IF last.op = "get_process_status" THEN last.arg \notin Procs
    ELSE IF last.op = "get_person_activity"
    THEN \A n \in persons : n.id # [kind |-> last.argKind, val |-> last.arg]
    ELSE last.arg \notin clubs

\* C17: a lookup by a key of no node returns None, and its tool returns
\* '... not found'; neither raises
C17_UnknownKeyIsNotFound ==
    (last.op \in KeyedLookups /\ UnknownKey /\ ~last.caught) =>
        IF ToolCall THEN last.outcome = "string" /\ last.text = "not found"
        ELSE last.outcome = "none"

\* the tool get_mp_activity was asked for an id of no Person node
C17_Witness ==
    /\ last.tool = "get_mp_activity"
    /\ last.arg = "999"
    /\ persons # {}
    /\ last.text = "not found"

\* C19: get_node_neighbors('Person', id) with the id as a string finds the
\* Person whose integer id has that value: the result is not empty when that
\* person has a relationship
C19_StringIdFindsPerson ==
    (/\ last.op = "get_node_neighbors"
     /\ last.nodeType = "Person"
     /\ ~last.caught
     /\ \E n \in persons :
            /\ n.id = [kind |-> "int", val |-> last.arg]
            /\ \E t \in RelTypes : n.rels[t] > 0) =>
        last.neighbors # {}

\* C21: get_process_details resolves a print linked to a process, initiating
\* or supplementary, to that process and lists every print of the process
\* exactly once, the queried one among them; it returns None exactly when the
\* print does not exist or has no process
C21_EveryPrintResolves ==
    (last.op = "get_process_details" /\ ~ToolCall) =>
        IF last.arg \in Prints /\ prints[last.arg].process # NoProcess
        THEN LET process == prints[last.arg].process
                 linked  == {pp \in Prints : prints[pp].process = process}
             IN  /\ last.outcome = "ok"
                 /\ last.processNumber = process
                 /\ Range(last.processPrints) = linked
                 /\ Len(last.processPrints) = Cardinality(linked)
                 /\ last.arg \in Range(last.processPrints)
        ELSE last.outcome = "none"

\* the details of a process of two prints were asked by its supplementary print
C21_Witness ==
    /\ last.op = "get_process_details"
    /\ last.outcome = "ok"
    /\ last.arg \in Prints
    /\ ~prints[last.arg].inProcessPrint
    /\ Len(last.processPrints) = 2

\* the number of entries of allStages get_process_status returns for a process
StatusStageCounts(process) ==
    {Len(ProcessStatusRecord(process, arrival).allStages) :
        arrival \in SeqsOf(stages[process])}

\* C28: allStages of get_process_details holds each stage of the process
\* exactly once, whatever the number of prints of the process: as many
\* entries as the process has stages and as get_process_status returns
C28_AllStagesOnce ==
    (last.op = "get_process_details" /\ last.outcome = "ok") =>
        /\ Len(last.allStages) = Cardinality(stages[last.processNumber])
        /\ \A i, j \in 1..Len(last.allStages) :
               last.allStages[i] = last.allStages[j] => i = j
        /\ StatusStageCounts(last.processNumber) = {Len(last.allStages)}

\* C26: when connect() fails the client is left without a driver
C26_FailedConnectLeavesNoDriver ==
    (last.op = "connect" /\ last.outcome = "error") => driver = NoDriver

\* C27: once close() has run at shutdown, no driver connect() opened is open
C27_EveryDriverClosed ==
    phase = "stopped" => \A d \in 1..MaxDrivers : drivers[d] # "open"

\* a request of the client
ClientRequest == ToolCall /\ last.tool = "get_process_status"

\* C22: a request that meets a store failure returns an 'Error ...' string
\* and leaves the driver reference and the driver as they were; a request
\* made while the driver is open and the store answers succeeds, whatever
\* failed before it and with no connect() in between
C22_FailureIsPerRequest ==
    /\ [](ClientRequest =>
            /\ last.outcome = "string"
            /\ last.caught => last.text = "Error"
            /\ (driver # NoDriver /\ drivers[driver] = "open" /\ reachable)
                  => ~last.caught)
    /\ [][ClientRequest' => (driver' = driver /\ drivers' = drivers)]_vars

\* a request succeeded on the driver on which an earlier request had failed
C22_Witness ==
    /\ ClientRequest
    /\ last.text = "output"
    /\ failedSinceConnect

\* what a method of QueryService and of the services below it can call
ReadOnlyCalls ==
    {"execute_read_query", "fulltext.queryNodes", "vector.queryNodes",
     "_search_prints_fulltext", "generate_embedding"}

\* C23: every access of QueryService to the store is made by
\* execute_read_query, in a read transaction, and no operation changes what
\* the store holds
C23_ReadOnly ==
    /\ [](last.calls \subseteq ReadOnlyCalls)
    /\ [][graph' = graph]_vars

\* get_club_statistics has read the statistics of a club
C23_Witness ==
    /\ last.op = "get_club_statistics"
    /\ ~ToolCall
    /\ last.outcome = "ok"
    /\ last.calls = {"execute_read_query"}

\* an 'Error ...' string that a failed query of the store explains
StoreFailed == last.caught /\ "execute_read_query" \in last.calls

\* C25: every tool calls an operation QueryService provides: unless the store
\* fails, a tool does not return an 'Error ...' string
C25_ToolsCallExistingOperations ==
    (ToolCall /\ ~StoreFailed) => last.text \in {"output", "not found"}

\* C29: for an existing club, activePrints + finishedPrints = authoredPrints,
\* and finishedPrints is the number of authored prints whose process the
\* classifier reports 'finished'
C29_ActivePlusFinished ==
    (last.op = "get_club_statistics" /\ last.outcome = "ok") =>
        /\ last.authoredPrints = Cardinality(authored[last.arg])
        /\ last.activePrints + last.finishedPrints = last.authoredPrints
        /\ last.finishedPrints =
              Cardinality({p \in authored[last.arg] : Classifications(p) = {"finished"}})

\* the number of neighbours in a set of rows
RECURSIVE SumOfCounts(_)
SumOfCounts(rows) ==
    IF rows = {} THEN 0
    ELSE LET r == CHOOSE x \in rows : TRUE
         IN  r.totalCount + SumOfCounts(rows \ {r})

\* the rows of the node the last get_node_neighbors matched
MatchedRows == NeighborRows(last.nodeType, last.arg)

\* C30: in the dictionary get_node_neighbors returns, the totalCount of a
\* relationship type is the number of neighbours the node has by that type,
\* whatever their labels, at most limit neighbours are listed, and every
\* relationship type of the node has an entry
C30_TotalCountPerRelationship ==
    (last.op = "get_node_neighbors" /\ ~last.caught) =>
        /\ \A e \in last.neighbors :
              /\ e.totalCount =
                    SumOfCounts({r \in MatchedRows : r.relType = e.relType})
              /\ e.shown <= last.limit
        /\ \A r \in MatchedRows : \E e \in last.neighbors : e.relType = r.relType

\* C24: two query operations under way at once on the shared client do not
\* disturb one another: each runs in a session of its own, each returns what
\* it returns when run alone on the same store, and no step of either changes
\* a field of QueryService, EmbeddingsService or Neo4jClient
OwnSessions ==
    \A c, d \in Callers :
        (c # d /\ requests[c].pc \in {"session", "read"}
               /\ requests[d].pc \in {"session", "read"})
            => requests[c].session # requests[d].session

SameAsAlone ==
    \A c \in Callers :
        requests[c].pc = "done"
            => requests[c].result \in QueryOutcomes(requests[c].op, requests[c].arg)

C24_QueriesIndependent ==
    /\ [](OwnSessions /\ SameAsAlone)
    /\ [][UNCHANGED <<graph, client, driver, drivers>>]_vars

\* both callers hold their results at once, of different operations
C24_Witness ==
    /\ requests["c1"].pc = "done" /\ requests["c2"].pc = "done"
    /\ requests["c1"].op # requests["c2"].op
    /\ requests["c1"].result.outcome = "ok"
    /\ requests["c2"].result.outcome = "none"

====
